---- MODULE Spec2Model ----
(***************************************************************************)
(* The dialogue layer of geminio (multiplexer/dialogue.go): one dialogue   *)
(* is an FSM, four bounded queues, a read pump, a write pump and the       *)
(* application calls Write / Read / open / Close / CloseWait, all sharing  *)
(* the RWMutex mtx and the flag sessionOK.  Two dialogues "a" and "b" are  *)
(* the two ends of one connection.                                         *)
(***************************************************************************)
EXTENDS Integers, Sequences, FiniteSets, TLC

VARIABLES dg, trace, wire

vars == <<dg, trace, wire>>

D == {"a", "b"}

Peer(d) == IF d = "a" THEN "b" ELSE "a"

(***************************************************************************)
(* Bounds of the model.  QueueCap stands for the capacity 128 the source   *)
(* gives every queue (dialogue.go:202, 209-211).                           *)
(***************************************************************************)
QueueCap == 2

MaxWrite == 3

MaxPairWrite == 3

MaxInject == 1

MaxTrace == 3

(***************************************************************************)
(* FSM states and events, dialogue.go:74-94.  ET_SESSIONACK has the same   *)
(* string as ET_SESSIONRECV in the source.                                 *)
(***************************************************************************)
INIT == "init"

SESSION_SENT == "session_sent"

SESSION_RECV == "session_recv"

SESSIONED == "sessioned"

DISMISS_SENT == "dismiss_sent"

DISMISS_RECV == "dismiss_recv"

DISMISSED == "dismissed"

FINI == "fini"

ET_SESSIONSENT == "sessionsent"

ET_SESSIONRECV == "sessionrecv"

ET_SESSIONACK == "sessionrecv"

ET_ERROR == "error"

ET_EOF == "eof"

ET_DISMISSSENT == "dismisssent"

ET_DISMISSRECV == "dismissrecv"

ET_DISMISSACK == "dismissack"

ET_FINI == "fini"

States == {INIT, SESSION_SENT, SESSION_RECV, SESSIONED, DISMISS_SENT,
           DISMISS_RECV, DISMISSED, FINI}

EventTypes == {ET_SESSIONSENT, ET_SESSIONRECV, ET_SESSIONACK, ET_ERROR, ET_EOF,
               ET_DISMISSSENT, ET_DISMISSRECV, ET_DISMISSACK, ET_FINI}

Ev(et, from, to, cb) == [et |-> et, from |-> from, to |-> to, cb |-> cb]

\* A variant of the table in which session_recv has no way out.
initFSMTrap ==
  { Ev(ET_SESSIONSENT, INIT, SESSION_SENT, FALSE),
    Ev(ET_SESSIONACK, SESSION_SENT, SESSIONED, FALSE),
    Ev(ET_ERROR, SESSION_SENT, DISMISSED, TRUE),
    Ev(ET_EOF, SESSION_SENT, DISMISSED, FALSE),
    Ev(ET_SESSIONRECV, INIT, SESSION_RECV, FALSE),
    Ev(ET_ERROR, SESSIONED, DISMISSED, TRUE),
    Ev(ET_EOF, SESSIONED, DISMISSED, FALSE),
    Ev(ET_DISMISSSENT, SESSIONED, DISMISS_SENT, FALSE),
    Ev(ET_DISMISSRECV, SESSIONED, DISMISS_RECV, FALSE),
    Ev(ET_DISMISSACK, DISMISS_SENT, DISMISSED, FALSE),
    Ev(ET_DISMISSACK, DISMISS_RECV, DISMISSED, FALSE),
    Ev(ET_FINI, INIT, FINI, FALSE),
    Ev(ET_FINI, SESSION_SENT, FINI, FALSE),
    Ev(ET_FINI, SESSIONED, FINI, FALSE),
    Ev(ET_FINI, DISMISS_SENT, FINI, FALSE),
    Ev(ET_FINI, DISMISS_RECV, FINI, FALSE),
    Ev(ET_FINI, DISMISSED, FINI, FALSE) }

\* The transitions added by initFSM; cb marks the ones carrying closeWrapper.
initFSM ==
  { Ev(ET_SESSIONSENT, INIT, SESSION_SENT, FALSE),
    Ev(ET_SESSIONACK, SESSION_SENT, SESSIONED, FALSE),
    Ev(ET_ERROR, SESSION_SENT, DISMISSED, TRUE),
    Ev(ET_EOF, SESSION_SENT, DISMISSED, FALSE),
    Ev(ET_SESSIONRECV, INIT, SESSION_RECV, FALSE),
    Ev(ET_SESSIONACK, SESSION_RECV, SESSIONED, FALSE),
    Ev(ET_ERROR, SESSION_RECV, DISMISSED, TRUE),
    Ev(ET_EOF, SESSION_RECV, DISMISSED, FALSE),
    Ev(ET_ERROR, SESSIONED, DISMISSED, TRUE),
    Ev(ET_EOF, SESSIONED, DISMISSED, FALSE),
    Ev(ET_DISMISSSENT, SESSIONED, DISMISS_SENT, FALSE),
    Ev(ET_DISMISSRECV, SESSIONED, DISMISS_RECV, FALSE),
    Ev(ET_DISMISSACK, DISMISS_SENT, DISMISSED, FALSE),
    Ev(ET_DISMISSACK, DISMISS_RECV, DISMISSED, FALSE),
    Ev(ET_FINI, INIT, FINI, FALSE),
    Ev(ET_FINI, SESSION_SENT, FINI, FALSE),
    Ev(ET_FINI, SESSIONED, FINI, FALSE),
    Ev(ET_FINI, DISMISS_SENT, FINI, FALSE),
    Ev(ET_FINI, DISMISS_RECV, FINI, FALSE),
    Ev(ET_FINI, DISMISSED, FINI, FALSE) }

\* The transitions an event type has from a state.
Transitions(state, et) == {t \in initFSM : t.et = et /\ t.from = state}

(***************************************************************************)
(* Packets.  Only the fields the dialogue layer reads are kept.            *)
(***************************************************************************)
Pkt(type, pid, neg, sid, acq) ==
  [type |-> type, pid |-> pid, neg |-> neg, sid |-> sid, acq |-> acq]

NoPkt == Pkt("None", 0, 0, 0, FALSE)

SessionIDNull == 0

NewSessionPacket(pid, negotiatingID, peersCall) ==
  Pkt("Session", pid, negotiatingID, 0, peersCall)

NewSessionAckPacket(pid, dialogueID) == Pkt("SessionAck", pid, 0, dialogueID, FALSE)

NewDismissPacket(pid, dialogueID) == Pkt("Dismiss", pid, 0, dialogueID, FALSE)

NewDismissAckPacket(pid, sessionID) == Pkt("DismissAck", pid, 0, sessionID, FALSE)

DataPacket(pid) == Pkt("Data", pid, 0, 0, FALSE)

\* Byte 1 of a Session payload as Encode builds it (qos 0): bit 4 is the flag.
SessionEncodeFlags(p) == IF p.acq THEN 16 ELSE 0

\* data[1] & 0x10
Mask10(b) == ((b \div 16) % 2) * 16

\* (data[1] & 0x10) == 1, packet_sess.go:79 and 101.
DecodeAcquire(b) == Mask10(b) = 1

\* SessionPacket.Decode: sessionIDAcquire = (data[1] & 0x10) == 1
SessionDecode(p) ==
  IF p.type = "Session"
    THEN [p EXCEPT !.acq = DecodeAcquire(SessionEncodeFlags(p))]
    ELSE p

(***************************************************************************)
(* Packet ids.  Each side draws its ids from its own counter; the open     *)
(* request of a dialogue takes the first one.                              *)
(***************************************************************************)
FirstPID(d) == IF d = "a" THEN 2 ELSE 1

NegotiatingIDOf(d) == IF d = "a" THEN 4 ELSE 6

(***************************************************************************)
(* NewDialogue, dialogue.go:192-231: the state of a dialogue after         *)
(* construction.  closeOnce is not set by the constructor and stays nil.   *)
(* The fields after panicked are the record of what has happened.          *)
(***************************************************************************)
NewDialogue(d, peersCall) ==
  [ fsm |-> INIT, fsmClosed |-> FALSE, fsmDead |-> FALSE,
    onceFini |-> "fresh", closeOnce |-> "nil",
    sessionOK |-> TRUE, readers |-> 0, writerPending |-> FALSE,
    writeCh |-> <<>>, writeInCh |-> <<>>, readInCh |-> <<>>, readOutCh |-> <<>>,
    closes |-> [q \in {"writeCh", "readInCh", "writeInCh", "readOutCh"} |-> 0],
    dialogueID |-> SessionIDNull,
    negotiatingID |-> NegotiatingIDOf(d), dialogueIDPeersCall |-> peersCall,
    nextPID |-> FirstPID(d), shub |-> {},
    wp |-> "select", wpPkt |-> NoPkt, wpSrc |-> "none",
    rp |-> "recv", rpPkt |-> NoPkt,
    wr |-> "idle", wrPkt |-> NoPkt, wrRet |-> "none", nWrites |-> 0,
    op |-> "idle", opPkt |-> NoPkt, opRet |-> "none",
    rdLog |-> <<>>,
    panicked |-> FALSE,
    sent |-> <<>>, cnErrs |-> 0, delivered |-> 0, nInject |-> 0,
    sendOnClosed |-> FALSE, okFlips |-> 0, finiCalls |-> 0, finiRuns |-> 0,
    finiEmits |-> 0, finiDone |-> {}, online |-> <<>>, offline |-> <<>>, rejected |-> {},
    closeCalls |-> 0, simAcks |-> {}, stateOpt |-> INIT ]

\* OptionDialogueState(state): dg.fsm.SetState(state), dialogue.go:145-149.
\* stateOpt keeps the state that was asked for.
OptionDialogueState(s, state) == [s EXCEPT !.fsm = state, !.stateOpt = state]

\* dg.fsm.SetState(INIT) of initFSM, dialogue.go:273.
initFSMSetState(s) == [s EXCEPT !.fsm = INIT]

\* NewDialogue with the initial-state option: the options run first
\* (dialogue.go:205-207), initFSM after them (line 226).
NewDialogueState(d, peersCall, state) ==
  initFSMSetState(OptionDialogueState(NewDialogue(d, peersCall), state))

Closed(s, q) == s.closes[q] > 0

(***************************************************************************)
(* Close and CloseWait begin with dg.closeOnce.Do(...), dialogue.go:325    *)
(* and 342.  On the nil closeOnce the call dereferences nil and the        *)
(* goroutine panics, which ends the process.  The body is kept for a       *)
(* closeOnce that has been set.                                            *)
(***************************************************************************)
Close(s) ==
  IF s.closeOnce = "nil"
    THEN [s EXCEPT !.panicked = TRUE]
    ELSE IF s.closeOnce = "done" \/ ~s.sessionOK
      THEN [s EXCEPT !.closeOnce = "done"]
      ELSE [s EXCEPT !.closeOnce = "done",
                     !.writeCh = Append(@, NewDismissPacket(s.nextPID, s.dialogueID)),
                     !.nextPID = @ + 2]

closeWrapper(s) == Close(s)

(***************************************************************************)
(* The FSM runtime on the table of initFSM: EmitEvent moves the state when *)
(* the event type has a transition from the current state and runs its     *)
(* callback, and is an error with no effect otherwise.  After fsm.Close()  *)
(* the runtime may refuse every event (fsmDead).                           *)
(***************************************************************************)
Accepts(s, et) == ~s.fsmDead /\ Transitions(s.fsm, et) # {}

\* The state the table leads to: unchanged when the event has no transition.
fsmStep(state, et) ==
  IF Transitions(state, et) = {} THEN state
  ELSE (CHOOSE x \in Transitions(state, et) : TRUE).to

EmitEvent(s, et) ==
  IF Accepts(s, et)
    THEN LET t == CHOOSE x \in Transitions(s.fsm, et) : TRUE
             s1 == [s EXCEPT !.fsm = fsmStep(s.fsm, et)]
         IN  IF t.cb THEN closeWrapper(s1) ELSE s1
    ELSE [s EXCEPT !.rejected = @ \cup {<<s.fsm, et>>}]

InStates(s, states) == s.fsm \in states

(***************************************************************************)
(* The sync hub: New registers an id, Ack wakes the waiter of a registered *)
(* id and is a no-op for any other id.                                     *)
(***************************************************************************)
shubNew(s, id) == [s EXCEPT !.shub = @ \cup {id}]

shubAck(s, id) ==
  IF id \in s.shub
    THEN IF s.op = "wait" /\ s.opPkt.pid = id
           THEN [s EXCEPT !.shub = @ \ {id}, !.op = "done", !.opRet = "nil"]
           ELSE [s EXCEPT !.shub = @ \ {id}]
    ELSE s

\* dg.dlgt.DialogueOnline(dg): the record keeps the FSM state it was delivered in.
DialogueOnline(s) == [s EXCEPT !.online = Append(@, s.fsm)]

(***************************************************************************)
(* cn.Write: the connection accepts the packet, or fails with an error or  *)
(* with io.EOF.                                                            *)
(***************************************************************************)
WriteResults == {"ok", "err", "eof"}

cnWrite(s, p, res) ==
  IF res = "ok" THEN [s EXCEPT !.sent = Append(@, p)] ELSE [s EXCEPT !.cnErrs = @ + 1]

(***************************************************************************)
(* The RWMutex mtx.  RLock waits while a writer holds or awaits the lock;  *)
(* Lock announces itself (writerPending) and waits for the readers to      *)
(* leave.                                                                  *)
(***************************************************************************)
\* A Lock that does not wait for the readers.
mtxLockNoWait(s) == TRUE

mtxLock(s) == s.readers = 0

mtxRLock(s) == ~s.writerPending

(***************************************************************************)
(* ch <- pkt on a queue of capacity QueueCap: possible when there is room; *)
(* on a closed queue the send panics.                                      *)
(***************************************************************************)
\* A queue that always has room.
CanSendAlways(s, q) == TRUE

CanSend(s, q) == Closed(s, q) \/ Len(s[q]) < QueueCap

\* A queue that hands out the newest packet first.
SendFront(s, q, p) ==
  IF Closed(s, q)
    THEN [s EXCEPT !.sendOnClosed = TRUE, !.panicked = TRUE]
    ELSE [s EXCEPT ![q] = <<p>> \o @]

Send(s, q, p) ==
  IF Closed(s, q)
    THEN [s EXCEPT !.sendOnClosed = TRUE, !.panicked = TRUE]
    ELSE [s EXCEPT ![q] = Append(@, p)]

(***************************************************************************)
(* A panic in any goroutine ends the process: the pumps, the calls in      *)
(* progress, the queues and the lock are gone.  What stays is the FSM      *)
(* state the dialogue died in and the record of what it did.               *)
(***************************************************************************)
Crash(s) ==
  [s EXCEPT !.panicked = TRUE,
            !.wp = "dead", !.rp = "dead", !.wr = "dead", !.op = "dead",
            !.wpPkt = NoPkt, !.rpPkt = NoPkt, !.wrPkt = NoPkt, !.opPkt = NoPkt,
            !.wpSrc = "none",
            !.writeCh = <<>>, !.writeInCh = <<>>, !.readInCh = <<>>,
            !.readOutCh = <<>>,
            !.readers = 0, !.writerPending = FALSE, !.shub = {}]

Upd(d, s) ==
  /\ dg' = [dg EXCEPT ![d] = IF s.panicked THEN Crash(s) ELSE s]
  /\ UNCHANGED <<trace, wire>>

Alive(d) == ~dg[d].panicked

(***************************************************************************)
(* handlePkt with iotype OUT, dialogue.go:484-548, up to the point where   *)
(* it writes to the connection.  wp is the write pump's position:          *)
(*   "cnwrite"  about to call cn.Write(wpPkt)                              *)
(*   "ioerr"    handlePkt returned IOErr (or the data write failed),       *)
(*              about to emit ET_ERROR      "ioeof"  about to emit ET_EOF  *)
(*   "closed"   at the label CLOSED, about to call fini                    *)
(***************************************************************************)
handlePktOut(s, p) ==
  CASE p.type = "Session" ->
         IF Accepts(s, ET_SESSIONSENT)
           THEN [EmitEvent(s, ET_SESSIONSENT) EXCEPT !.wp = "cnwrite", !.wpPkt = p]
           ELSE [EmitEvent(s, ET_SESSIONSENT) EXCEPT !.wp = "ioerr"]
    [] p.type = "Dismiss" ->
         IF InStates(s, {DISMISS_RECV, DISMISSED})
           THEN [shubAck(s, p.pid) EXCEPT !.wp = "select"]
           ELSE IF Accepts(s, ET_DISMISSSENT)
             THEN [EmitEvent(s, ET_DISMISSSENT) EXCEPT !.wp = "cnwrite", !.wpPkt = p]
             ELSE [EmitEvent(s, ET_DISMISSSENT) EXCEPT !.wp = "ioerr"]
    [] p.type = "DismissAck" ->
         IF Accepts(s, ET_DISMISSACK)
           THEN [EmitEvent(s, ET_DISMISSACK) EXCEPT !.wp = "cnwrite", !.wpPkt = p]
           ELSE [EmitEvent(s, ET_DISMISSACK) EXCEPT !.wp = "ioerr"]
    [] OTHER -> [s EXCEPT !.wp = "cnwrite", !.wpPkt = p]

\* writePkt, case pkt, ok := <-dg.writeCh (dialogue.go:373-397): a packet is
\* handled; on the closed and drained queue (ok false) the pump returns.
writePktCtrl(d) ==
  LET s == dg[d] IN
  /\ Alive(d) /\ s.wp = "select"
  /\ IF s.writeCh # <<>>
       THEN Upd(d, handlePktOut([s EXCEPT !.writeCh = Tail(@), !.wpSrc = "writeCh"],
                                Head(s.writeCh)))
       ELSE /\ Closed(s, "writeCh")
            /\ Upd(d, [s EXCEPT !.wp = "returned"])

\* writePkt, case pkt := <-dg.writeInCh (dialogue.go:398-405), a packet is there.
\* On the closed and empty writeInCh the case only continues the loop.
writePktData(d) ==
  LET s == dg[d] IN
  /\ Alive(d) /\ s.wp = "select" /\ s.writeInCh # <<>>
  /\ Upd(d, [s EXCEPT !.writeInCh = Tail(@), !.wpSrc = "writeInCh",
                      !.wp = "cnwrite", !.wpPkt = Head(s.writeInCh)])

(***************************************************************************)
(* The write pump's cn.Write and what follows it: dialogue.go:493-501,     *)
(* 519-527, 536-544 for a control packet, 384-389 for any other packet of  *)
(* writeCh, 405-419 for a packet of writeInCh.                             *)
(***************************************************************************)
AfterCnWrite(s, p, res) ==
  IF s.wpSrc = "writeCh"
    THEN IF p.type \in {"Session", "Dismiss", "DismissAck"}
           THEN IF res # "ok" THEN "ioerr"
                ELSE IF p.type = "DismissAck" THEN "closed" ELSE "select"
           ELSE IF res # "ok" THEN "closed" ELSE "select"
    ELSE IF res = "ok" THEN "select"
         ELSE IF res = "eof" THEN "ioeof" ELSE "ioerr"

writePktCnWrite(d, R) ==
  LET s == dg[d] IN
  /\ Alive(d) /\ s.wp = "cnwrite"
  /\ \E res \in R :
       Upd(d, [cnWrite(s, s.wpPkt, res) EXCEPT
                 !.wp = AfterCnWrite(s, s.wpPkt, res), !.wpPkt = NoPkt])

\* dg.fsm.EmitEvent(ET_ERROR) / (ET_EOF) of the write pump, then goto CLOSED
\* (dialogue.go:393-396, 407-417).
writePktEmitErr(d) ==
  LET s == dg[d] IN
  /\ Alive(d) /\ s.wp \in {"ioerr", "ioeof"}
  /\ Upd(d, [EmitEvent(s, IF s.wp = "ioeof" THEN ET_EOF ELSE ET_ERROR)
               EXCEPT !.wp = "closed"])

(***************************************************************************)
(* fini, dialogue.go:688-705, called by pump ("wp" or "rp") at CLOSED.     *)
(* onceFini.Do runs the body for the first caller; a later caller waits    *)
(* until the body has returned and then returns.                           *)
(***************************************************************************)
\* An onceFini that lets every caller run the body.
onceFiniEnterAlways(s) == TRUE

onceFiniEnter(s) == s.onceFini = "fresh"

finiCall(d, pump) ==
  LET s == dg[d] IN
  /\ Alive(d) /\ s[pump] = "closed"
  /\ \/ /\ onceFiniEnter(s)
        /\ Upd(d, [s EXCEPT ![pump] = "finilock", !.onceFini = "running",
                            !.writerPending = TRUE,
                            !.finiCalls = @ + 1, !.finiRuns = @ + 1])
     \/ /\ ~onceFiniEnter(s) /\ s.onceFini = "done"
        /\ Upd(d, [s EXCEPT ![pump] = "returned", !.finiCalls = @ + 1])

\* dg.mtx.Lock() ... dg.mtx.Unlock(), dialogue.go:692-700.
finiLocked(d, pump) ==
  LET s == dg[d] IN
  /\ Alive(d) /\ s[pump] = "finilock" /\ mtxLock(s)
  /\ Upd(d, [s EXCEPT ![pump] = "finiemit",
                      !.okFlips = IF s.sessionOK THEN @ + 1 ELSE @,
                      !.sessionOK = FALSE,
                      !.closes = [q \in DOMAIN @ |-> @[q] + 1],
                      !.panicked = \E q \in DOMAIN s.closes : s.closes[q] > 0,
                      !.writerPending = FALSE])

\* dg.fsm.EmitEvent(ET_FINI); dg.fsm.Close(), dialogue.go:702-703.
finiEmit(d, pump) ==
  LET s == dg[d] IN
  /\ Alive(d) /\ s[pump] = "finiemit"
  /\ \E dead \in BOOLEAN :
       Upd(d, [EmitEvent(s, ET_FINI) EXCEPT
                 ![pump] = "returned", !.onceFini = "done",
                 !.finiEmits = @ + 1, !.finiDone = @ \cup {pump},
                 !.fsmClosed = TRUE, !.fsmDead = dead])

(***************************************************************************)
(* handlePkt with iotype IN, dialogue.go:550-665, as readPkt and           *)
(* handlePktWrapper use it.  rp is the read pump's position:               *)
(*   "sessack"  about to cn.Write the SessionAck rpPkt (line 570)          *)
(*   "ackenq"   about to RLock and enqueue the DismissAck rpPkt (620, 640) *)
(*   "acksend"  holding the read-lock, at dg.writeCh <- retPkt             *)
(*   "dataenq"  IOData: about to RLock in handlePktWrapper (461)           *)
(*   "datasend" holding the read-lock, at dg.readOutCh <- pkt              *)
(*   "ioerr"    handlePkt returned IOErr, about to emit ET_ERROR (473)     *)
(*   "closed"   at the label CLOSED, about to call fini                    *)
(***************************************************************************)
\* The dialogue id an acceptor takes from a Session, dialogue.go:562-565.
ChosenDialogueID(s, p) == IF p.acq THEN s.negotiatingID ELSE p.neg

\* A SessionAck handler that keeps the id the dialogue already has.
AdoptSessionIDKeep(s, p) == s

\* dg.dialogueID = realPkt.SessionID, dialogue.go:602.
AdoptSessionID(s, p) == [s EXCEPT !.dialogueID = p.sid]

handlePktIn(s, p) ==
  CASE p.type = "Session" ->
         IF Accepts(s, ET_SESSIONRECV)
           THEN [EmitEvent(s, ET_SESSIONRECV) EXCEPT
                   !.dialogueID = ChosenDialogueID(s, p),
                   !.rp = "sessack",
                   !.rpPkt = NewSessionAckPacket(p.pid, ChosenDialogueID(s, p))]
           ELSE [EmitEvent(s, ET_SESSIONRECV) EXCEPT !.rp = "ioerr"]
    [] p.type = "SessionAck" ->
         IF Accepts(s, ET_SESSIONACK)
           THEN [DialogueOnline(shubAck(AdoptSessionID(EmitEvent(s, ET_SESSIONACK), p),
                                        p.pid))
                   EXCEPT !.rp = "recv"]
           ELSE [EmitEvent(s, ET_SESSIONACK) EXCEPT !.rp = "ioerr"]
    [] p.type = "Dismiss" ->
         IF InStates(s, {DISMISS_SENT, DISMISSED})
           THEN [s EXCEPT !.rp = "ackenq",
                          !.rpPkt = NewDismissAckPacket(p.pid, p.sid),
                          !.simAcks = @ \cup {NewDismissAckPacket(p.pid, p.sid)}]
           ELSE IF Accepts(s, ET_DISMISSRECV)
             THEN [EmitEvent(s, ET_DISMISSRECV) EXCEPT
                     !.rp = "ackenq", !.rpPkt = NewDismissAckPacket(p.pid, p.sid)]
             ELSE [EmitEvent(s, ET_DISMISSRECV) EXCEPT !.rp = "ioerr"]
    [] p.type = "DismissAck" ->
         IF Accepts(s, ET_DISMISSACK)
           THEN [shubAck(EmitEvent(s, ET_DISMISSACK), p.pid) EXCEPT !.rp = "closed"]
           ELSE [EmitEvent(s, ET_DISMISSACK) EXCEPT !.rp = "ioerr"]
    [] OTHER -> [s EXCEPT !.rp = "dataenq", !.rpPkt = p]

\* readPkt: pkt, ok := <-dg.readInCh (dialogue.go:428-436): a packet is
\* handled; on the closed and drained queue (ok false) the pump returns.
readPktRecv(d) ==
  LET s == dg[d] IN
  /\ Alive(d) /\ s.rp = "recv"
  /\ IF s.readInCh # <<>>
       THEN Upd(d, handlePktIn([s EXCEPT !.readInCh = Tail(@)], Head(s.readInCh)))
       ELSE /\ Closed(s, "readInCh")
            /\ Upd(d, [s EXCEPT !.rp = "returned"])

\* IN Session: cn.Write(retPkt), EmitEvent(ET_SESSIONACK), DialogueOnline
\* (dialogue.go:570-591).
readPktSessionAck(d, R) ==
  LET s == dg[d] IN
  /\ Alive(d) /\ s.rp = "sessack"
  /\ \E res \in R :
       LET s1 == [cnWrite(s, s.rpPkt, res) EXCEPT !.rpPkt = NoPkt] IN
       IF res # "ok"
         THEN Upd(d, [s1 EXCEPT !.rp = "ioerr"])
         ELSE IF Accepts(s1, ET_SESSIONACK)
           THEN Upd(d, [DialogueOnline(EmitEvent(s1, ET_SESSIONACK)) EXCEPT
                          !.rp = "recv"])
           ELSE Upd(d, [EmitEvent(s1, ET_SESSIONACK) EXCEPT !.rp = "ioerr"])

\* dg.mtx.RLock(); if !dg.sessionOK {...}  of the read pump
\* (dialogue.go:620-624, 640-644, 461-466).
readPktRLock(d) ==
  LET s == dg[d] IN
  /\ Alive(d) /\ s.rp \in {"ackenq", "dataenq"} /\ mtxRLock(s)
  /\ IF ~s.sessionOK
       THEN Upd(d, [s EXCEPT !.rp = IF s.rp = "ackenq" THEN "ioerr" ELSE "recv",
                             !.rpPkt = NoPkt])
       ELSE Upd(d, [s EXCEPT !.rp = IF s.rp = "ackenq" THEN "acksend" ELSE "datasend",
                             !.readers = @ + 1])

\* dg.writeCh <- retPkt / dg.readOutCh <- pkt, then RUnlock
\* (dialogue.go:625-627, 645-648, 467-469).
readPktSend(d) ==
  LET s == dg[d]
      q == IF s.rp = "acksend" THEN "writeCh" ELSE "readOutCh"
  IN
  /\ Alive(d) /\ s.rp \in {"acksend", "datasend"} /\ CanSend(s, q)
  /\ Upd(d, [Send(s, q, s.rpPkt) EXCEPT
               !.rp = "recv", !.rpPkt = NoPkt, !.readers = @ - 1])

\* handlePktWrapper, case IOErr: EmitEvent(ET_ERROR), return IOClosed
\* (dialogue.go:471-474).
readPktEmitErr(d) ==
  LET s == dg[d] IN
  /\ Alive(d) /\ s.rp = "ioerr"
  /\ Upd(d, [EmitEvent(s, ET_ERROR) EXCEPT !.rp = "closed"])

(***************************************************************************)
(* The application's calls.                                                *)
(***************************************************************************)
\* Write up to the send, dialogue.go:245-251.
Write(d, max) ==
  LET s == dg[d] IN
  /\ Alive(d) /\ s.wr = "idle" /\ s.nWrites < max /\ mtxRLock(s)
  /\ IF ~s.sessionOK
       THEN Upd(d, [s EXCEPT !.wrRet = "eof", !.nWrites = @ + 1])
       ELSE Upd(d, [s EXCEPT !.wr = "sending", !.wrPkt = DataPacket(s.nWrites + 1),
                             !.wrRet = "none",
                             !.nWrites = @ + 1, !.readers = @ + 1])

\* dg.writeInCh <- pkt; return nil (and the deferred RUnlock), dialogue.go:252-253.
WriteSend(d) ==
  LET s == dg[d] IN
  /\ Alive(d) /\ s.wr = "sending" /\ CanSend(s, "writeInCh")
  /\ Upd(d, [Send(s, "writeInCh", s.wrPkt) EXCEPT
               !.wr = "idle", !.wrPkt = NoPkt, !.wrRet = "nil", !.readers = @ - 1])

\* What Read returns in state s, dialogue.go:256-262: the next packet of
\* readOutCh, io.EOF on the closed and drained queue; otherwise it waits.
\* A Read that keeps waiting on the closed and drained queue.
ReadResultWait(s) == IF s.readOutCh # <<>> THEN "pkt" ELSE "wait"

ReadResult(s) ==
  IF s.readOutCh # <<>> THEN "pkt"
  ELSE IF Closed(s, "readOutCh") THEN "eof" ELSE "wait"

Read(d) ==
  LET s == dg[d] IN
  /\ Alive(d) /\ ReadResult(s) # "wait"
  /\ IF ReadResult(s) = "pkt"
       THEN Upd(d, [s EXCEPT !.readOutCh = Tail(@),
                             !.rdLog = Append(@, Head(s.readOutCh).pid)])
       ELSE Upd(d, s)

\* open up to the send, dialogue.go:304-315.
open(d) ==
  LET s == dg[d]
      pkt == NewSessionPacket(s.nextPID, s.negotiatingID, s.dialogueIDPeersCall)
  IN
  /\ Alive(d) /\ s.op = "idle" /\ mtxRLock(s)
  /\ IF ~s.sessionOK
       THEN Upd(d, [s EXCEPT !.op = "done", !.opRet = "eof", !.nextPID = @ + 2])
       ELSE Upd(d, [s EXCEPT !.op = "sending", !.opPkt = pkt, !.nextPID = @ + 2,
                             !.readers = @ + 1])

\* dg.writeCh <- pkt; RUnlock, dialogue.go:316-317.
openSend(d) ==
  LET s == dg[d] IN
  /\ Alive(d) /\ s.op = "sending" /\ CanSend(s, "writeCh")
  /\ Upd(d, [Send(s, "writeCh", s.opPkt) EXCEPT !.op = "sync", !.readers = @ - 1])

\* sync := dg.shub.New(pkt.PacketID, 30s), dialogue.go:319; then open waits.
openSync(d) ==
  LET s == dg[d] IN
  /\ Alive(d) /\ s.op = "sync"
  /\ Upd(d, [shubNew(s, s.opPkt.pid) EXCEPT !.op = "wait"])

\* The 30 s of the sync entry pass: open returns the timeout error.
openTimeout(d) ==
  LET s == dg[d] IN
  /\ Alive(d) /\ s.op = "wait"
  /\ Upd(d, [s EXCEPT !.op = "done", !.opRet = "timeout", !.shub = @ \ {s.opPkt.pid}])

\* The application calls Close, dialogue.go:324-338.
CloseCall(d) ==
  LET s == dg[d] IN
  /\ Alive(d)
  /\ Upd(d, Close([s EXCEPT !.closeCalls = @ + 1]))

\* The application calls CloseWait, dialogue.go:340-367: the same closeOnce.Do.
CloseWait(d) ==
  LET s == dg[d] IN
  /\ Alive(d)
  /\ Upd(d, Close([s EXCEPT !.closeCalls = @ + 1]))

(***************************************************************************)
(* The connection layer under the dialogue.  Inject: the peer is any       *)
(* program speaking the protocol, and the connection's read pump puts the  *)
(* packet it decoded into readInCh.  Deliver: the peer is dialogue Peer(d) *)
(* and the connection is reliable and ordered.                             *)
(***************************************************************************)
PeerPackets ==
  { NewSessionPacket(9, 5, FALSE), NewSessionPacket(9, 5, TRUE),
    NewSessionAckPacket(2, 7), NewSessionAckPacket(9, 7),
    NewDismissPacket(9, 7), NewDismissAckPacket(9, 7), NewDismissAckPacket(2, 7),
    DataPacket(9) }

Inject(d) ==
  LET s == dg[d] IN
  /\ Alive(d) /\ s.nInject < MaxInject
  /\ ~Closed(s, "readInCh") /\ Len(s.readInCh) < QueueCap
  /\ \E p \in PeerPackets :
       Upd(d, [s EXCEPT !.readInCh = Append(@, SessionDecode(p)),
                        !.nInject = @ + 1])

Deliver(d) ==
  LET s == dg[d]
      r == dg[Peer(d)]
  IN
  /\ s.delivered < Len(s.sent)
  /\ ~r.panicked
  /\ IF Closed(r, "readInCh")
       THEN dg' = [dg EXCEPT ![d].delivered = @ + 1]
       ELSE /\ Len(r.readInCh) < QueueCap
            /\ dg' = [dg EXCEPT ![d].delivered = @ + 1,
                                ![Peer(d)].readInCh =
                                   Append(@, SessionDecode(s.sent[s.delivered + 1]))]
  /\ UNCHANGED <<trace, wire>>

(***************************************************************************)
(* The session-layer packet codec, packet_sess.go.  A packet on the wire   *)
(* is the 14 header bytes followed by the payload; bytes are 0..255.       *)
(* wire is one run of the codec: the packet given to Encode, the bytes it  *)
(* returned, and what Decode or DecodeFromReader made of them.             *)
(***************************************************************************)
MaxCut == 2

HeaderLen == 14

CodecTypes == {"Session", "SessionAck", "Dismiss", "DismissAck"}

\* binary.BigEndian.PutUint64 / PutUint32 and their inverses.
RECURSIVE BigEndian(_, _)
BigEndian(v, n) ==
  IF n = 0 THEN <<>> ELSE BigEndian(v \div 256, n - 1) \o <<v % 256>>

RECURSIVE Uint(_)
Uint(b) == IF b = <<>> THEN 0 ELSE Uint(SubSeq(b, 1, Len(b) - 1)) * 256 + b[Len(b)]

\* data[from:to] of Go, on a sequence that counts from 1.
Slice(data, from, to) == SubSeq(data, from + 1, to)

\* A session-layer packet: the header fields this layer reads (PacketLen is
\* the payload length the header carries) and the fields of the four variants.
CodecPkt(type, pid, len, priority, qos, acq, neg, sid, meta, error) ==
  [type |-> type, pid |-> pid, PacketLen |-> len, Priority |-> priority,
   Qos |-> qos, acq |-> acq, NegotiateID |-> neg, SessionID |-> sid,
   Meta |-> meta, Error |-> error]

\* The packet a header decoder hands to the variant's Decode: the header
\* fields set, every other field at its zero value.
FreshPkt(type, pid, len) == CodecPkt(type, pid, len, 0, 0, FALSE, 0, 0, <<>>, <<>>)

\* json.Marshal(SessionData): an object whose two fields are omitted when
\* empty.  A field is written as its tag, its length and its bytes, which
\* stands for the quoted (base64) text of the real encoding.
JsonOpen == 123

JsonClose == 125

TagMeta == 109

TagError == 101

JsonField(tag, v) == IF v = <<>> THEN <<>> ELSE <<tag, Len(v)>> \o v

Marshal(p) ==
  <<JsonOpen>> \o JsonField(TagMeta, p.Meta) \o JsonField(TagError, p.Error)
    \o <<JsonClose>>

\* One field of the object at position pos of js, if it is there.
ParseField(js, pos, tag) ==
  IF /\ pos + 1 <= Len(js) /\ js[pos] = tag /\ pos + 1 + js[pos + 1] <= Len(js)
    THEN [val |-> SubSeq(js, pos + 2, pos + 1 + js[pos + 1]),
          next |-> pos + 2 + js[pos + 1]]
    ELSE [val |-> <<>>, next |-> pos]

\* json.Unmarshal into a fresh SessionData.
Unmarshal(js) ==
  LET m == ParseField(js, 2, TagMeta)
      e == ParseField(js, m.next, TagError)
  IN [ok |-> /\ Len(js) >= 2 /\ js[1] = JsonOpen
             /\ e.next = Len(js) /\ js[e.next] = JsonClose,
      Meta |-> m.val, Error |-> e.val]

\* The bytes of a variant's payload in front of the JSON, packet_sess.go:57,
\* 135, 200, 264.
FixedLen(type) ==
  CASE type = "Session" -> 10
    [] type = "SessionAck" -> 18
    [] OTHER -> 8

\* pkt[1] |= byte(Qos) << 4 >> 4; if sessionIDAcquire { pkt[1] |= 0x10 },
\* packet_sess.go:60-63.  The shifts are on a byte.
QosBits(qos) == (((qos % 256) * 16) % 256) \div 16

FlagsByte(p) == QosBits(p.Qos) + (IF p.acq THEN 16 ELSE 0)

\* The payload each Encode builds, packet_sess.go:57-65, 135-140, 200-205,
\* 264-268.
Payload(p) ==
  CASE p.type = "Session" ->
         <<p.Priority, FlagsByte(p)>> \o BigEndian(p.NegotiateID, 8) \o Marshal(p)
    [] p.type = "SessionAck" ->
         <<0, 0>> \o BigEndian(p.NegotiateID, 8) \o BigEndian(p.SessionID, 8)
           \o Marshal(p)
    [] OTHER -> BigEndian(p.SessionID, 8) \o Marshal(p)

\* PacketHeader.Encode: 14 bytes, of which [10..14] are the payload length
\* (packet_sess.go:68): version and type, flags, packet-id, payload-length.
TypeCode(type) ==
  CASE type = "Session" -> 5 [] type = "SessionAck" -> 6
    [] type = "Dismiss" -> 7 [] OTHER -> 8

HeaderEncode(p) ==
  <<TypeCode(p.type), 0>> \o BigEndian(p.pid, 8) \o BigEndian(p.PacketLen, 4)

\* length := len(data) + 10 (18, 8, 8).
PayloadLength(p) == Len(Marshal(p)) + FixedLen(p.type)

\* Encode: binary.BigEndian.PutUint32(hdr[10:14], uint32(length));
\* return append(hdr, pkt...).
Encode(p) ==
  LET hdr == HeaderEncode(p) IN
  Slice(hdr, 0, 10) \o BigEndian(PayloadLength(p), 4) \o Payload(p)

\* The fixed fields each decoder assigns from data, packet_sess.go:77-80,
\* 152-153, 217, 281.
DecodeFixed(pkt, data) ==
  CASE pkt.type = "Session" ->
         [pkt EXCEPT !.Priority = data[1],
                     !.Qos = data[2] % 16,
                     !.acq = DecodeAcquire(data[2]),
                     !.NegotiateID = Uint(Slice(data, 2, 10))]
    [] pkt.type = "SessionAck" ->
         [pkt EXCEPT !.NegotiateID = Uint(Slice(data, 2, 10)),
                     !.SessionID = Uint(Slice(data, 10, 18))]
    [] OTHER -> [pkt EXCEPT !.SessionID = Uint(Slice(data, 0, 8))]

\* The fixed fields, then the JSON of data[fixed:length]; on a JSON error the
\* fixed fields stay assigned and SessionData is not.
DecodeBody(pkt, data, length) ==
  LET fixed == DecodeFixed(pkt, data)
      js == Unmarshal(Slice(data, FixedLen(pkt.type), length))
  IN IF js.ok
       THEN [pkt |-> [fixed EXCEPT !.Meta = js.Meta, !.Error = js.Error],
             n |-> length, err |-> "nil"]
       ELSE [pkt |-> fixed, n |-> 0, err |-> "json"]

\* A length check that lets every buffer through.
HasLengthAlways(data, length) == TRUE

\* !(len(data) < length), packet_sess.go:74, 149, 213, 277.
HasLength(data, length) == Len(data) >= length

\* Decode(data) of the four variants, packet_sess.go:72-90, 147-163, 211-227,
\* 275-290.  A buffer that is too short for the fields read is a panic.
Decode(pkt, data) ==
  IF ~HasLength(data, pkt.PacketLen)
    THEN [pkt |-> pkt, n |-> 0, err |-> "ErrIncompletePacket"]
  ELSE IF Len(data) < pkt.PacketLen \/ pkt.PacketLen < FixedLen(pkt.type)
    THEN [pkt |-> pkt, n |-> 0, err |-> "panic"]
  ELSE DecodeBody(pkt, data, pkt.PacketLen)

\* DecodeFromReader(reader) of the four variants, packet_sess.go:92-112,
\* 165-183, 229-247, 292-309: io.ReadFull of PacketLen bytes, then as Decode.
DecodeFromReader(pkt, stream) ==
  IF Len(stream) < pkt.PacketLen
    THEN [pkt |-> pkt, n |-> 0, err |-> "ReadFull"]
  ELSE IF pkt.PacketLen < FixedLen(pkt.type)
    THEN [pkt |-> pkt, n |-> 0, err |-> "panic"]
  ELSE DecodeBody(pkt, SubSeq(stream, 1, pkt.PacketLen), pkt.PacketLen)

\* The header decoder: type, packet-id and payload length from the 14 bytes.
TypeOf(code) == CHOOSE type \in CodecTypes : TypeCode(type) = code

HeaderDecode(bytes) ==
  FreshPkt(TypeOf(bytes[1]), Uint(Slice(bytes, 2, 10)), Uint(Slice(bytes, 10, 14)))

\* The packets the codec is run on.
CodecIDs == {0, 258}

CodecPackets ==
  { CodecPkt(type, 3, 0, priority, qos, acq, neg, sid, meta, error) :
      type \in CodecTypes, priority \in {0, 200}, qos \in {0, 9},
      acq \in BOOLEAN, neg \in CodecIDs, sid \in CodecIDs,
      meta \in {<<>>, <<7>>}, error \in {<<>>, <<4, 5>>} }

NoWire == [op |-> "none"]

\* pkt.Encode()
CodecEncode ==
  /\ wire.op = "none"
  /\ \E p \in CodecPackets :
       wire' = [op |-> "encoded", pkt |-> p, bytes |-> Encode(p)]
  /\ UNCHANGED <<dg, trace>>

\* The receiver decodes the header and gives Decode the payload, of which
\* the last cut bytes have not arrived yet.
CodecDecode ==
  /\ wire.op = "encoded"
  /\ \E cut \in 0..MaxCut :
       LET payload == Slice(wire.bytes, HeaderLen, Len(wire.bytes) - cut)
           into == HeaderDecode(wire.bytes)
       IN wire' = [op |-> "decoded", pkt |-> wire.pkt, bytes |-> wire.bytes,
                   cut |-> cut, into |-> into, by |-> "Decode",
                   res |-> Decode(into, payload)]
  /\ UNCHANGED <<dg, trace>>

\* The receiver decodes the header and lets DecodeFromReader read the payload.
CodecDecodeFromReader ==
  /\ wire.op = "encoded"
  /\ LET payload == Slice(wire.bytes, HeaderLen, Len(wire.bytes))
         into == HeaderDecode(wire.bytes)
     IN wire' = [op |-> "decoded", pkt |-> wire.pkt, bytes |-> wire.bytes,
                 cut |-> 0, into |-> into, by |-> "DecodeFromReader",
                 res |-> DecodeFromReader(into, payload)]
  /\ UNCHANGED <<dg, trace>>

\* The peer declares any payload length in the header, and Decode is given
\* the first n bytes that follow the header.
MaxDeclared == 20

CodecDecodeDeclared ==
  /\ wire.op = "encoded"
  /\ \E length \in 0..MaxDeclared, n \in 0..MaxDeclared :
       LET full == Slice(wire.bytes, HeaderLen, Len(wire.bytes))
           data == Slice(full, 0, IF n < Len(full) THEN n ELSE Len(full))
           into == [HeaderDecode(wire.bytes) EXCEPT !.PacketLen = length]
       IN wire' = [op |-> "decoded", pkt |-> wire.pkt, bytes |-> wire.bytes,
                   cut |-> Len(full) - Len(data), into |-> into,
                   by |-> "Decode", res |-> Decode(into, data)]
  /\ UNCHANGED <<dg, trace>>

(***************************************************************************)
(* Specifications.                                                         *)
(*  Spec      dialogue "a" against an arbitrary peer (Inject), with a      *)
(*            connection whose writes may fail.                            *)
(*  PairSpec  dialogues "a" and "b" are the two ends of one ordered        *)
(*            connection, whose writes may fail; "a" is the side that      *)
(*            opens and writes data.                                       *)
(*  FsmSpec   the FSM of "a" alone, driven by every sequence of at most    *)
(*            MaxTrace events.                                             *)
(*  StateSpec the FSM of a dialogue built with the initial-state option.   *)
(*  StallSpec dialogue "a" receiving data that the application never       *)
(*            reads, with the goroutines scheduled fairly.                 *)
(*  CodecSpec one packet of CodecPackets encoded and decoded again.        *)
(*  DeclaredSpec the decoders on a header that declares any payload       *)
(*            length, with any prefix of the payload as the buffer.        *)
(* Steps(d, R) are the steps of goroutines that are already running: the   *)
(* two pumps and the calls past their first statement.  The Go scheduler   *)
(* runs every goroutine that can run, which is the fairness of FairSpec    *)
(* and FairPairSpec; the application's calls, the peer and the timeouts    *)
(* are under no obligation.                                                *)
(***************************************************************************)
Init == /\ \E peersCall \in BOOLEAN : dg = [d \in D |-> NewDialogue(d, peersCall)]
        /\ trace = <<>>
        /\ wire = NoWire

Steps(d, R) ==
  \/ writePktCtrl(d)
  \/ writePktData(d)
  \/ writePktCnWrite(d, R)
  \/ writePktEmitErr(d)
  \/ readPktRecv(d)
  \/ readPktSessionAck(d, R)
  \/ readPktRLock(d)
  \/ readPktSend(d)
  \/ readPktEmitErr(d)
  \/ \E pump \in {"wp", "rp"} : finiCall(d, pump)
  \/ \E pump \in {"wp", "rp"} : finiLocked(d, pump)
  \/ \E pump \in {"wp", "rp"} : finiEmit(d, pump)
  \/ WriteSend(d)
  \/ openSend(d)
  \/ openSync(d)

Calls(d) ==
  \/ Read(d)
  \/ CloseCall(d)
  \/ CloseWait(d)
  \/ openTimeout(d)

Next ==
  \/ Steps("a", WriteResults)
  \/ Calls("a")
  \/ Write("a", MaxWrite)
  \/ open("a")
  \/ Inject("a")

Spec == Init /\ [][Next]_vars

PairNext ==
  \/ \E d \in D : Steps(d, WriteResults)
  \/ \E d \in D : Calls(d)
  \/ Write("a", MaxPairWrite)
  \/ open("a")
  \/ \E d \in D : Deliver(d)

PairSpec == Init /\ [][PairNext]_vars

FairSpec == Spec /\ WF_vars(Steps("a", WriteResults))

FairPairSpec ==
  PairSpec /\ WF_vars(\E d \in D : Steps(d, WriteResults) \/ Deliver(d))

\* The peer sends data only: the connection puts the next data packet into
\* readInCh.
MaxArrive == 3

Arrive(d) ==
  LET s == dg[d] IN
  /\ Alive(d) /\ s.nInject < MaxArrive
  /\ ~Closed(s, "readInCh") /\ Len(s.readInCh) < QueueCap
  /\ Upd(d, [s EXCEPT !.readInCh = Append(@, DataPacket(s.nInject + 1)),
                      !.nInject = @ + 1])

\* The steps the goroutines of d take when the peer sends data, the
\* application writes and never calls Read, and connection writes may fail.
StallSteps(d) ==
  \/ writePktData(d)
  \/ writePktCnWrite(d, WriteResults)
  \/ writePktEmitErr(d)
  \/ readPktRecv(d)
  \/ readPktRLock(d)
  \/ readPktSend(d)
  \/ \E pump \in {"wp", "rp"} : finiCall(d, pump)
  \/ \E pump \in {"wp", "rp"} : finiLocked(d, pump)
  \/ \E pump \in {"wp", "rp"} : finiEmit(d, pump)
  \/ WriteSend(d)

StallNext == StallSteps("a") \/ Write("a", MaxWrite) \/ Arrive("a")

StallSpec == Init /\ [][StallNext]_vars /\ WF_vars(StallSteps("a"))

DeclaredNext == CodecEncode \/ CodecDecodeDeclared

DeclaredSpec == Init /\ [][DeclaredNext]_vars

FsmEmit(et) ==
  /\ Len(trace) < MaxTrace
  /\ trace' = Append(trace, et)
  /\ dg' = [dg EXCEPT !["a"].fsm = fsmStep(@, et)]
  /\ UNCHANGED wire

FsmNext == \E et \in EventTypes : FsmEmit(et)

FsmSpec == Init /\ [][FsmNext]_vars

\* The FSM of a dialogue built with OptionDialogueState, driven as in FsmSpec.
StateInit ==
  /\ \E peersCall \in BOOLEAN : \E state \in States :
       dg = [d \in D |-> NewDialogueState(d, peersCall, state)]
  /\ trace = <<>>
  /\ wire = NoWire

StateSpec == StateInit /\ [][FsmNext]_vars

CodecNext == CodecEncode \/ CodecDecode \/ CodecDecodeFromReader

CodecSpec == Init /\ [][CodecNext]_vars

(***************************************************************************)
(* Properties.                                                             *)
(***************************************************************************)
Range(f) == {f[i] : i \in DOMAIN f}

Queues == {"writeCh", "readInCh", "writeInCh", "readOutCh"}

\* The queue a goroutine of s is about to send on, if it is at a send.
SendTargets(s) ==
  (IF s.wr = "sending" THEN {"writeInCh"} ELSE {})
  \cup (IF s.op = "sending" THEN {"writeCh"} ELSE {})
  \cup (IF s.rp = "acksend" THEN {"writeCh"} ELSE {})
  \cup (IF s.rp = "datasend" THEN {"readOutCh"} ELSE {})

\* C1: no packet is ever sent on a closed dialogue queue: a goroutine at a
\* send holds the read-lock with sessionOK true and its queue open, and a
\* queue is closed only once sessionOK is false and no reader holds the lock.
C1_NoSendOnClosedQueue ==
  \A d \in D :
    LET s == dg[d] IN
    /\ ~s.sendOnClosed
    /\ SendTargets(s) # {} =>
         /\ s.readers > 0
         /\ s.sessionOK
         /\ \A q \in SendTargets(s) : ~Closed(s, q)
    /\ \A q \in Queues : Closed(s, q) => ~s.sessionOK
    /\ s.sessionOK => \A q \in Queues : ~Closed(s, q)

\* fini waits for the lock while Write sits at its send on the full writeInCh,
\* after an open has enqueued its Session.
C1_Witness ==
  LET s == dg["a"] IN
  /\ s.writerPending /\ s.wr = "sending" /\ s.readers > 0
  /\ Len(s.writeInCh) = QueueCap
  /\ s.op \in {"sync", "wait", "done"}

\* C3: the body of fini runs at most once per dialogue: sessionOK is flipped
\* once, no queue is closed twice, the fini event is emitted once; once fini
\* has returned each of the four queues has been closed exactly once, and a
\* second call changes none of this and does not fail.
C3_FiniOnce ==
  \A d \in D :
    LET s == dg[d] IN
    /\ s.finiRuns <= 1 /\ s.okFlips <= 1 /\ s.finiEmits <= 1
    /\ \A q \in Queues : s.closes[q] <= 1
    /\ s.onceFini = "done" =>
         /\ s.okFlips = 1 /\ s.finiEmits = 1 /\ ~s.sessionOK
         /\ \A q \in Queues : s.closes[q] = 1
    /\ s.finiCalls = 2 /\ ~s.panicked => s.finiRuns = 1

\* Both pumps reached CLOSED and called fini: one ran the body, the other came
\* second and returned.
C3_Witness ==
  LET s == dg["a"] IN
  /\ s.finiCalls = 2 /\ s.onceFini = "done" /\ ~s.panicked
  /\ s.wp = "returned" /\ s.rp = "returned"
  /\ \A q \in Queues : s.closes[q] = 1

\* Write sits at its send on the full writeInCh, holding the read-lock.
WriteBlocked(s) == s.wr = "sending" /\ Len(s.writeInCh) = QueueCap

\* A pump is inside the body of fini.
FiniTriggered(s) == s.onceFini = "running"

\* C2: whenever fini is triggered while a Write is blocked on the full
\* write-in queue, fini eventually completes and that Write returns
\* end-of-stream (unless the process has died meanwhile).
C2_BlockedWriteEndsWithEOF ==
  \A k \in 1..MaxWrite :
    (FiniTriggered(dg["a"]) /\ WriteBlocked(dg["a"]) /\ dg["a"].nWrites = k)
      ~> (\/ dg["a"].panicked
          \/ /\ dg["a"].onceFini = "done"
             /\ dg["a"].nWrites = k /\ dg["a"].wrRet = "eof")

\* C6: a Dismiss met in dismiss_sent or dismissed is answered with a DismissAck
\* that is written to the connection: when the write pump has returned, every
\* such answer is among the packets the dialogue wrote.
C6_SimultaneousCloseAckWritten ==
  \A d \in D :
    LET s == dg[d] IN
    (s.wp = "returned" /\ ~s.panicked) => s.simAcks \subseteq Range(s.sent)

\* The read pump of d takes the packet at the head of readInCh in this step.
ReadPumpTakes(d, type) ==
  /\ dg[d].rp = "recv" /\ dg[d].readInCh # <<>>
  /\ Head(dg[d].readInCh).type = type
  /\ ~dg'[d].panicked
  /\ Len(dg'[d].readInCh) < Len(dg[d].readInCh)

\* C7: a SessionAck received in init is rejected with no effect: the FSM stays
\* in init, the dialogue-id is not adopted, no sync entry is acked and
\* DialogueOnline is not delivered.
C7_SessionAckInInitRejected ==
  [][\A d \in D :
       (ReadPumpTakes(d, "SessionAck") /\ dg[d].fsm = INIT) =>
         /\ dg'[d].fsm = INIT
         /\ dg'[d].dialogueID = dg[d].dialogueID
         /\ dg'[d].shub = dg[d].shub
         /\ dg'[d].online = dg[d].online]_vars

\* C8: whenever fini() has completed and the queues are closed, the FSM of the
\* dialogue is in the terminal state fini.
C8_FiniEndsInFini ==
  \A d \in D :
    LET s == dg[d] IN
    (s.onceFini = "done" /\ ~s.panicked /\ \A q \in Queues : Closed(s, q))
      => s.fsm = FINI

\* No write to the connection has failed on either side so far.
Reliable == \A d \in D : dg[d].cnErrs = 0

\* b wrote a DismissAck carrying the packet-id and session-id of a Dismiss
\* that a wrote.
DismissAnswered ==
  \E p \in Range(dg["a"].sent) :
    /\ p.type = "Dismiss"
    /\ NewDismissAckPacket(p.pid, p.sid) \in Range(dg["b"].sent)

\* C4: two dialogues in sessioned on a reliable connection, exactly one side
\* (a) calls Close: both sides end in state fini, b having written the
\* DismissAck that carries the ids of a's Dismiss.
C4_OneSideClose ==
  (/\ dg["a"].fsm = SESSIONED /\ dg["b"].fsm = SESSIONED
   /\ dg["a"].closeCalls = 1 /\ dg["b"].closeCalls = 0 /\ Reliable)
    ~> (\/ /\ dg["a"].fsm = FINI /\ dg["b"].fsm = FINI /\ DismissAnswered
        \/ dg["b"].closeCalls > 0
        \/ ~Reliable)

\* C5: both peers of a sessioned dialogue call Close: both sides reach
\* dismissed (and from there fini) and no FSM event is rejected on either side.
C5_SimultaneousClose ==
  (/\ dg["a"].fsm = SESSIONED /\ dg["b"].fsm = SESSIONED
   /\ dg["a"].closeCalls = 1 /\ dg["b"].closeCalls = 1 /\ Reliable)
    ~> (\/ /\ dg["a"].fsm \in {DISMISSED, FINI} /\ dg["b"].fsm \in {DISMISSED, FINI}
           /\ dg["a"].rejected = {} /\ dg["b"].rejected = {}
        \/ ~Reliable)

\* The states the table reaches from the states S in at most n transitions.
RECURSIVE Reach(_, _)
Reach(S, n) ==
  IF n = 0 THEN S
  ELSE Reach(S \cup {t.to : t \in {x \in initFSM : x.from \in S}}, n - 1)

CanReachFini(state) == FINI \in Reach({state}, Cardinality(States))

\* C9: every state the FSM reaches from init by a sequence of events has a
\* path of accepted events to fini.
C9_FsmClosure == CanReachFini(dg["a"].fsm)

\* The walk stands in session_recv, the one state without a fini transition.
C9_Witness == dg["a"].fsm = SESSION_RECV /\ Len(trace) = 1

\* C10: once the initiator's open() has returned nil, the initiator's and the
\* acceptor's dialogue ids are equal, and equal to the session-id of the
\* SessionAck the acceptor wrote for the initiator's Session.
C10_DialogueIDsAgree ==
  dg["a"].opRet = "nil" =>
    /\ dg["a"].dialogueID = dg["b"].dialogueID
    /\ \E q \in Range(dg["a"].sent) :
         /\ q.type = "Session"
         /\ NewSessionAckPacket(q.pid, dg["a"].dialogueID) \in Range(dg["b"].sent)

\* open() returned nil with the peer-assigns-id option set.
C10_Witness ==
  /\ dg["a"].opRet = "nil" /\ dg["a"].dialogueIDPeersCall
  /\ dg["a"].fsm = SESSIONED /\ dg["b"].fsm = SESSIONED
  /\ dg["a"].dialogueID # SessionIDNull

\* C11: the acceptor, taking in init the Session its peer wrote, makes its own
\* negotiatingID the dialogue-id when that Session was written with the
\* peer-assigns-id flag set and the packet's negotiate-id otherwise, prepares
\* the SessionAck with the received packet-id and that id, and enters
\* session_recv.
C11_AcceptorChoosesID ==
  [][\A d \in D : \A q \in Range(dg[Peer(d)].sent) :
       (/\ ReadPumpTakes(d, "Session") /\ dg[d].fsm = INIT
        /\ q.type = "Session" /\ q.pid = Head(dg[d].readInCh).pid)
       => LET chosen == IF q.acq THEN dg[d].negotiatingID ELSE q.neg IN
          /\ dg'[d].fsm = SESSION_RECV
          /\ dg'[d].dialogueID = chosen
          /\ dg'[d].rpPkt = NewSessionAckPacket(q.pid, chosen)]_vars

\* The write pump of d, at its select, takes the packet at the head of
\* writeInCh in this step.
WritePumpTakesData(d) ==
  /\ dg[d].wp = "select" /\ dg[d].writeInCh # <<>>
  /\ ~dg'[d].panicked
  /\ Len(dg'[d].writeInCh) < Len(dg[d].writeInCh)

\* C12: the write pump takes a data packet from writeInCh only when no
\* control packet is waiting in writeCh.
C12_ControlFirst ==
  [][\A d \in D : WritePumpTakesData(d) => dg[d].writeCh = <<>>]_vars

\* The packet-ids of the data packets of a sequence of packets, in order.
DataPids(seq) ==
  LET data == SelectSeq(seq, LAMBDA p : p.type = "Data")
  IN [i \in 1..Len(data) |-> data[i].pid]

\* The sequence <<1, ..., n>>: the data packets in the order Write took them.
Upto(n) == [i \in 1..n |-> i]

\* C13: the data packets a wrote to the connection are, in order and without
\* repetition, the first of those a's Write accepted, and the packets b's
\* Read returned are, in order and without repetition, the first of those.
C13_DataFifo ==
  /\ \E k \in 0..dg["a"].nWrites : DataPids(dg["a"].sent) = Upto(k)
  /\ \E j \in 0..Len(DataPids(dg["a"].sent)) : dg["b"].rdLog = Upto(j)

\* Two data packets went through every queue of the path and were read.
C13_Witness == dg["b"].rdLog = <<1, 2>>

\* The dialogue runs: no panic, fini not begun, every connection write so far
\* was accepted.
Running(s) == ~s.panicked /\ s.onceFini = "fresh" /\ s.cnErrs = 0

\* The packet a pump holds, as a sequence, when it is a data packet.
Held(p) == IF p.type = "Data" THEN <<p>> ELSE <<>>

\* The number of Write calls that returned nil.
Accepted(s) == s.nWrites - (IF s.wr = "sending" THEN 1 ELSE 0)

\* C14: write-in and read-out never hold more than their capacity, and while
\* the dialogue runs every data packet Write accepted is written, held by the
\* write pump or waiting in write-in, and every data packet that arrived from
\* the peer is returned by Read, waiting in read-out, held by the read pump
\* or waiting in read-in: none is dropped, so a Write that finds write-in full
\* waits.
C14_NoDropBounded ==
  /\ \A d \in D : /\ Len(dg[d].writeInCh) <= QueueCap
                  /\ Len(dg[d].readOutCh) <= QueueCap
  /\ Running(dg["a"]) =>
       Upto(Accepted(dg["a"])) =
         DataPids(dg["a"].sent \o Held(dg["a"].wpPkt) \o dg["a"].writeInCh)
  /\ Running(dg["b"]) =>
       DataPids(SubSeq(dg["a"].sent, 1, dg["a"].delivered)) =
         dg["b"].rdLog \o DataPids(dg["b"].readOutCh \o Held(dg["b"].rpPkt)
                                     \o dg["b"].readInCh)

\* A Write waits on the full write-in queue of a running dialogue.
C14_Witness ==
  /\ Running(dg["a"]) /\ dg["a"].wr = "sending"
  /\ Len(dg["a"].writeInCh) = QueueCap

\* open() waits on its sync entry.
OpenWaits(s) == s.op = "wait" /\ s.opPkt.pid \in s.shub

\* C15: an open() that is waiting on its sync entry before fini begins is no
\* longer waiting once fini has completed: fini cancelled the entry and woke
\* the waiter.
C15_FiniCancelsSync ==
  []((OpenWaits(dg["a"]) /\ dg["a"].onceFini = "fresh")
       => [](dg["a"].onceFini = "done" => ~OpenWaits(dg["a"])))

\* A decoder has run on the packet of the wire and returned no error.
Decoded(type) ==
  /\ wire.op = "decoded" /\ wire.pkt.type = type /\ wire.res.err = "nil"

\* C16: Decode and DecodeFromReader of a Session set the peer-assigns-id flag
\* exactly when bit 4 of payload byte 1 is non-zero, so the flag decodes as
\* it was encoded.
C16_AcquireFlagDecoded ==
  Decoded("Session") =>
    /\ wire.res.pkt.acq = (Mask10(wire.bytes[HeaderLen + 2]) # 0)
    /\ wire.res.pkt.acq = wire.pkt.acq

\* The fields each variant's Encode writes into the payload.
EncodedFields(type) ==
  CASE type = "Session" ->
         {"Priority", "Qos", "acq", "NegotiateID", "Meta", "Error"}
    [] type = "SessionAck" -> {"NegotiateID", "SessionID", "Meta", "Error"}
    [] OTHER -> {"SessionID", "Meta", "Error"}

\* C17: for each of the four variants, decoding what Encode produced, with
\* the payload length Encode patched into the header, gives every encoded
\* field the value it had.
C17_RoundTrip ==
  \A type \in CodecTypes :
    Decoded(type) =>
      \A f \in EncodedFields(type) : wire.res.pkt[f] = wire.pkt[f]

\* C18: the length Encode writes into header bytes [10..14] is the number of
\* bytes after the header, the variant's fixed bytes plus the JSON, and a
\* Decode given fewer payload bytes than that returns ErrIncompletePacket,
\* consumes nothing and leaves the packet as it was.
C18_LengthFraming ==
  /\ wire.op # "none" =>
       /\ Uint(Slice(wire.bytes, 10, 14)) = Len(wire.bytes) - HeaderLen
       /\ Len(wire.bytes) - HeaderLen
            = FixedLen(wire.pkt.type) + Len(Marshal(wire.pkt))
  /\ (wire.op = "decoded" /\ wire.by = "Decode" /\ wire.cut > 0) =>
       wire.res = [pkt |-> wire.into, n |-> 0, err |-> "ErrIncompletePacket"]

\* Decode has run on a DismissAck with meta whose payload lacks its last bytes.
C18_Witness ==
  /\ wire.op = "decoded" /\ wire.by = "Decode" /\ wire.cut = MaxCut
  /\ wire.pkt.type = "DismissAck" /\ wire.pkt.Meta # <<>>
  /\ wire.into.PacketLen = 8 + Len(Marshal(wire.pkt))

\* C19: a dialogue that went online and has been torn down gets
\* DialogueOffline delivered, once, on each side.
C19_OfflineDelivered ==
  \A d \in D :
    (dg[d].online # <<>> /\ dg[d].onceFini = "done")
      ~> (Len(dg[d].offline) = 1)

\* C20: a dialogue built with the initial-state option starts with its FSM in
\* the state asked for, and its first event is taken from that state.
C20_InitialStateOption ==
  /\ trace = <<>> => dg["a"].fsm = dg["a"].stateOpt
  /\ Len(trace) = 1 => dg["a"].fsm = fsmStep(dg["a"].stateOpt, trace[1])

\* fini has completed on s and the process is up.
Finished(s) == s.onceFini = "done" /\ ~s.panicked

C22_AckFindsEntry ==
  [][\A d \in D :
       (/\ ReadPumpTakes(d, "SessionAck") /\ dg[d].fsm = SESSION_SENT
        /\ dg[d].op \in {"sync", "wait"}
        /\ Head(dg[d].readInCh).pid = dg[d].opPkt.pid)
       => /\ dg[d].opPkt.pid \in dg[d].shub
          /\ dg'[d].op = "done" /\ dg'[d].opRet = "nil"]_vars

\* The states from which the table has the error and eof transitions.
SessionStates == {SESSION_SENT, SESSION_RECV, SESSIONED}

\* C23: a failed connection write of the write pump is followed by the error
\* or eof event, and that event, met in session_sent, session_recv or
\* sessioned, leaves the FSM in dismissed with the pump at the call of fini.
C23_WriteErrorDismisses ==
  [][\A d \in D :
       /\ (dg[d].wp = "cnwrite" /\ dg'[d].cnErrs > dg[d].cnErrs)
            => dg'[d].wp \in {"ioerr", "ioeof"}
       /\ (/\ dg[d].wp \in {"ioerr", "ioeof"} /\ dg[d].cnErrs > 0
           /\ dg'[d].wp # dg[d].wp /\ dg[d].fsm \in SessionStates)
            => dg'[d].fsm = DISMISSED /\ dg'[d].wp = "closed"]_vars

\* Both pumps of s have returned.
PumpsReturned(s) == s.wp = "returned" /\ s.rp = "returned"

\* C24: once a pump has entered fini, both pumps eventually return (unless
\* the process dies): none stays blocked on a queue or on the lock, also
\* when read-out is full because the application does not read.
C24_PumpsReturn ==
  (dg["a"].onceFini = "running")
    ~> (dg["a"].panicked \/ PumpsReturned(dg["a"]))

\* The Dismiss packets of dialogue-id id that s has queued or written.
Dismisses(s, id) ==
  { i \in 1..Len(s.writeCh) :
      s.writeCh[i].type = "Dismiss" /\ s.writeCh[i].sid = id } \cup
  { -i : i \in { j \in 1..Len(s.sent) :
      s.sent[j].type = "Dismiss" /\ s.sent[j].sid = id } }

\* C25: a Close or CloseWait call on a dialogue in sessioned completes
\* without fault, and a call queues a Dismiss carrying the dialogue-id
\* exactly when it is the first call; later calls queue nothing.
C25_CloseOnce ==
  [][\A d \in D :
       (dg'[d].closeCalls > dg[d].closeCalls /\ dg[d].fsm = SESSIONED) =>
         /\ ~dg'[d].panicked
         /\ Cardinality(Dismisses(dg'[d], dg[d].dialogueID))
              = (IF dg[d].closeCalls = 0 THEN 1 ELSE 0)
                  + Cardinality(Dismisses(dg[d], dg[d].dialogueID))]_vars

\* C26: a Session the read pump takes when the FSM is not in init is
\* rejected with no effect: the FSM state and the dialogue-id stay, no
\* SessionAck is prepared for writing, and DialogueOnline is not called.
C26_SessionOutsideInitRejected ==
  [][\A d \in D :
       (ReadPumpTakes(d, "Session") /\ dg[d].fsm # INIT) =>
         /\ dg'[d].fsm = dg[d].fsm
         /\ dg'[d].dialogueID = dg[d].dialogueID
         /\ dg'[d].rp # "sessack"
         /\ dg'[d].rpPkt.type # "SessionAck"
         /\ dg'[d].online = dg[d].online]_vars

\* The write pump of d takes a packet of the given type from writeCh.
WritePumpTakesCtrl(d, type) ==
  /\ dg[d].wp = "select" /\ dg[d].writeCh # <<>>
  /\ Head(dg[d].writeCh).type = type
  /\ dg'[d].writeCh = Tail(dg[d].writeCh)

\* A pump of d emits the error event in a state whose error transition
\* has the close callback.
CloseCallbackRuns(d) ==
  /\ dg[d].fsm \in SessionStates
  /\ \/ dg[d].wp = "ioerr" /\ dg'[d].wp # dg[d].wp
     \/ dg[d].rp = "ioerr" /\ dg'[d].rp # dg[d].rp

\* C27: a Dismiss goes to the connection only after sessioned ->
\* dismiss_sent; a Dismiss the write pump takes in dismiss_recv or dismissed
\* is not written and its sync entry is acked; and the close callback of the
\* error transition enqueues such a Dismiss for the write pump.
C27_DismissWrittenOnlyFromSessioned ==
  [][\A d \in D :
       /\ (WritePumpTakesCtrl(d, "Dismiss") /\ dg'[d].wp = "cnwrite") =>
            dg[d].fsm = SESSIONED /\ dg'[d].fsm = DISMISS_SENT
       /\ (WritePumpTakesCtrl(d, "Dismiss")
             /\ dg[d].fsm \in {DISMISS_RECV, DISMISSED}) =>
            /\ dg'[d].wp = "select" /\ dg'[d].sent = dg[d].sent
            /\ Head(dg[d].writeCh).pid \notin dg'[d].shub
       /\ CloseCallbackRuns(d) =>
            /\ ~dg'[d].panicked
            /\ dg'[d].fsm = DISMISSED
            /\ \E i \in 1..Len(dg'[d].writeCh) :
                 dg'[d].writeCh[i].type = "Dismiss"]_vars

\* C28: Decode of any variant, for every declared payload length (also one
\* smaller than the fixed fields) and every buffer, returns a decoded packet
\* or an error value: it never indexes or slices outside the buffer.
C28_DecodeStaysInBuffer ==
  (wire.op = "decoded" /\ wire.by = "Decode") =>
    /\ wire.res.err \in {"nil", "ErrIncompletePacket", "json"}
    /\ wire.res.err = "nil" => wire.res.n = wire.into.PacketLen

====
